---- MODULE Spec2Model ----
(***************************************************************************)
(* Model of the comparison scripts of hivellm/transmutation:               *)
(*   compare_detailed.py, detailed_diff.py, test_precision.py,             *)
(*   compare_modes.py, and of scripts/download_alternative_onnx_models.py. *)
(* The scripts read two markdown texts (the docling reference and the      *)
(* precision-mode candidate) and compare them with difflib's               *)
(* SequenceMatcher and unified_diff.  A text is a sequence of characters   *)
(* (one-character strings); a line is a sequence of characters too.        *)
(* Positions are 0-based as in the Python code; element i of the Python    *)
(* sequence s is s[i+1] here.                                              *)
(***************************************************************************)
EXTENDS Integers, Sequences, FiniteSets, TLC

VARIABLES
    docling,     \* data/output_docling.md: the reference text
    precision,   \* data/output_precision_mode.md: the candidate text
    pc,          \* the last step that has run
    sim,         \* compare_detailed.py: sim, as a fraction
    blocks,      \* the matching blocks sim was computed from
    total_sim,   \* detailed_diff.py: total_sim, as a fraction
    opcodes,     \* detailed_diff.py: the opcodes inside unified_diff
    diff,        \* detailed_diff.py: diff
    issues,      \* detailed_diff.py: issues
    counts,      \* detailed_diff.py: the four pattern counts
    shown,       \* compare_detailed.py: the lines its difference loop prints
    sections,    \* compare_detailed.py: the section lines it prints
    docling_sections,    \* compare_detailed.py: docling_sections
    precision_sections,  \* compare_detailed.py: precision_sections
    abs_start_d,   \* detailed_diff.py: abs_start_d
    abs_start_p,   \* detailed_diff.py: abs_start_p
    intro_start_d, \* detailed_diff.py: intro_start_d
    intro_start_p, \* detailed_diff.py: intro_start_p
    abstract_d,  \* detailed_diff.py: abstract_d
    abstract_p,  \* detailed_diff.py: abstract_p
    abs_sim,     \* detailed_diff.py: abs_sim, as a fraction
    runs,        \* how many times the scripts have been started on the two files
    previous,    \* what the run before this one has computed
    status,      \* test_precision.py: the status it prints
    still_need,  \* test_precision.py: the shortfall it prints, as a fraction
    fast_sim,    \* compare_modes.py: fast_sim, as a fraction
    precision_sim, \* compare_modes.py: precision_sim, as a fraction
    improvement, \* compare_modes.py: improvement, as a fraction
    modes_status,  \* compare_modes.py: status
    installed,   \* download_alternative_onnx_models.py: huggingface_hub can be imported
    dl_pc,       \* download_alternative_onnx_models.py: where main() is
    success,     \* main(): success
    attempted,   \* main(): the download functions it has called, in order
    hub,         \* what the hub answered to the last download function
    term,        \* search_and_download_any_onnx(): how many search terms are done
    saved,       \* the files written under models/
    printed,     \* main(): what it has printed
    exit_code    \* the exit status of the script

vars == <<docling, precision, pc, sim, blocks, total_sim,
          opcodes, diff, issues, counts, shown, sections,
          docling_sections, precision_sections,
          abs_start_d, abs_start_p, intro_start_d, intro_start_p,
          abstract_d, abstract_p, abs_sim, runs, previous,
          status, still_need, fast_sim, precision_sim, improvement, modes_status,
          installed, dl_pc, success, attempted, hub, term, saved, printed, exit_code>>

\* The variables of compare_detailed.py and detailed_diff.py.
compareVars ==
    <<docling, precision, pc, sim, blocks, total_sim,
      opcodes, diff, issues, counts, shown, sections,
      docling_sections, precision_sections,
      abs_start_d, abs_start_p, intro_start_d, intro_start_p,
      abstract_d, abstract_p, abs_sim, runs, previous>>

\* The variables of test_precision.py and compare_modes.py.
thresholdVars == <<status, still_need, fast_sim, precision_sim, improvement, modes_status>>

\* The variables of download_alternative_onnx_models.py.
downloadVars ==
    <<installed, dl_pc, success, attempted, hub, term, saved, printed, exit_code>>

(***************************************************************************)
(* Bounds of the model.                                                    *)
(***************************************************************************)
MaxLen == 4

MaxLines == 2

MaxSections == 3

(***************************************************************************)
(* Generic helpers.                                                        *)
(***************************************************************************)
Max(x, y) == IF x >= y THEN x ELSE y

Min(x, y) == IF x <= y THEN x ELSE y

\* Python slice s[lo:hi] for 0 <= lo, with hi clipped to len(s).
Slice(s, lo, hi) == SubSeq(s, lo + 1, Min(hi, Len(s)))

RECURSIVE SumSizes(_)
SumSizes(bs) == IF bs = <<>> THEN 0 ELSE Head(bs).size + SumSizes(Tail(bs))

\* n copies of element c.
Fill(c, n) == [k \in 1..n |-> c]

(***************************************************************************)
(* difflib.SequenceMatcher(isjunk, a, b) with autojunk left at its default *)
(* (True), as every call of the scripts leaves it.  isjunk is the set of   *)
(* elements the junk predicate accepts; the scripts pass None (NoJunk).    *)
(***************************************************************************)
NoJunk == {}

\* __chain_b applies the popularity heuristic to b of at least this length.
AutojunkMinLen == 200

Elements(s) == {s[k] : k \in 1..Len(s)}

\* b2j before purging: element -> its 0-based indices in b (the code keeps
\* them as an increasing list; the set is read in increasing order below).
IndicesOf(b, elt) == {j \in 0..(Len(b) - 1) : b[j + 1] = elt}

bjunk(isjunk, b) == Elements(b) \cap isjunk

bpopular(isjunk, b) ==
    IF Len(b) >= AutojunkMinLen
    THEN LET ntest == (Len(b) \div 100) + 1
         IN  {elt \in Elements(b) \ isjunk : Cardinality(IndicesOf(b, elt)) > ntest}
    ELSE {}

\* __chain_b: the b2j map after junk and popular elements are purged.
chain_b(isjunk, b) ==
    [elt \in (Elements(b) \ bjunk(isjunk, b)) \ bpopular(isjunk, b)
        |-> IndicesOf(b, elt)]

\* j2len.get(j, 0); the dict j2len is kept as the set of its items <<j, k>>.
Get(j2len, j) ==
    LET hit == {p \in j2len : p[1] = j}
    IN  IF hit = {} THEN 0 ELSE (CHOOSE p \in hit : TRUE)[2]

\* The inner loop of find_longest_match for one i: "for j in b2j[a[i]]" with
\* "if j < blo: continue" and "if j >= bhi: break" visits, in increasing
\* order, the indices j with blo <= j < bhi.  Each gets
\* k = newj2len[j] = j2len.get(j-1, 0) + 1, and "if k > bestsize" keeps the
\* first j that reaches the largest k when that k exceeds the bestsize so far.
InnerLoop(a, b2j, i, blo, bhi, j2len, best) ==
    LET js == IF a[i + 1] \in DOMAIN b2j
              THEN {j \in b2j[a[i + 1]] : blo <= j /\ j < bhi}
              ELSE {}
        newj2len == {<<j, Get(j2len, j - 1) + 1>> : j \in js}
        ks == {p[2] : p \in newj2len}
        kmax == IF ks = {} THEN 0 ELSE CHOOSE k \in ks : \A x \in ks : x <= k
        first == CHOOSE p \in newj2len :
                    /\ p[2] = kmax
                    /\ \A q \in newj2len : q[2] = kmax => p[1] <= q[1]
    IN  IF kmax > best.bestsize
        THEN [besti |-> i - kmax + 1, bestj |-> first[1] - kmax + 1,
              bestsize |-> kmax, j2len |-> newj2len]
        ELSE [best EXCEPT !.j2len = newj2len]

\* The outer loop of find_longest_match, "for i in range(lo, hi)", run on
\* st = [besti, bestj, bestsize, j2len]; the range is run as its two halves,
\* the second starting from the state the first has finished with.
RECURSIVE OuterLoop(_, _, _, _, _, _, _)
OuterLoop(a, b2j, lo, hi, blo, bhi, st) ==
    IF lo >= hi THEN st
    ELSE IF hi = lo + 1 THEN InnerLoop(a, b2j, lo, blo, bhi, st.j2len, st)
    ELSE LET mid == (lo + hi) \div 2
             half == OuterLoop(a, b2j, lo, mid, blo, bhi, st)
         IN  IF half.bestsize >= st.bestsize
             THEN OuterLoop(a, b2j, mid, hi, blo, bhi, half)
             ELSE half

\* ExtendLeft without the comparison a[besti-1] == b[bestj-1].
ExtendLeftUnchecked(a, b, junk, wantJunk, alo, blo, m) ==
    LET limit == Min(m.besti - alo, m.bestj - blo)
        Ok(k) == (b[m.bestj - k + 1] \in junk) = wantJunk
        n == CHOOSE n \in 0..limit :
                /\ \A k \in 1..n : Ok(k)
                /\ n < limit => ~Ok(n + 1)
    IN  [besti |-> m.besti - n, bestj |-> m.bestj - n, bestsize |-> m.bestsize + n]

\* while besti > alo and bestj > blo and (b[bestj-1] is junk) = wantJunk
\*       and a[besti-1] == b[bestj-1]: besti, bestj, bestsize = besti-1, bestj-1, bestsize+1
\* The loop runs n times, n the length of the run of such pairs left of m.
ExtendLeft(a, b, junk, wantJunk, alo, blo, m) ==
    LET limit == Min(m.besti - alo, m.bestj - blo)
        Ok(k) == /\ (b[m.bestj - k + 1] \in junk) = wantJunk
                 /\ a[m.besti - k + 1] = b[m.bestj - k + 1]
        n == CHOOSE n \in 0..limit :
                /\ \A k \in 1..n : Ok(k)
                /\ n < limit => ~Ok(n + 1)
    IN  [besti |-> m.besti - n, bestj |-> m.bestj - n, bestsize |-> m.bestsize + n]

\* ExtendRight without the comparison a[besti+bestsize] == b[bestj+bestsize].
ExtendRightUnchecked(a, b, junk, wantJunk, ahi, bhi, m) ==
    LET limit == Min(ahi - (m.besti + m.bestsize), bhi - (m.bestj + m.bestsize))
        Ok(k) == (b[m.bestj + m.bestsize + k] \in junk) = wantJunk
        n == CHOOSE n \in 0..limit :
                /\ \A k \in 1..n : Ok(k)
                /\ n < limit => ~Ok(n + 1)
    IN  [m EXCEPT !.bestsize = m.bestsize + n]

\* while besti+bestsize < ahi and bestj+bestsize < bhi
\*       and (b[bestj+bestsize] is junk) = wantJunk
\*       and a[besti+bestsize] == b[bestj+bestsize]: bestsize += 1
ExtendRight(a, b, junk, wantJunk, ahi, bhi, m) ==
    LET limit == Min(ahi - (m.besti + m.bestsize), bhi - (m.bestj + m.bestsize))
        Ok(k) == /\ (b[m.bestj + m.bestsize + k] \in junk) = wantJunk
                 /\ a[m.besti + m.bestsize + k] = b[m.bestj + m.bestsize + k]
        n == CHOOSE n \in 0..limit :
                /\ \A k \in 1..n : Ok(k)
                /\ n < limit => ~Ok(n + 1)
    IN  [m EXCEPT !.bestsize = m.bestsize + n]

\* besti, bestj, bestsize as the first loop leaves them.
BestOf(st) == [besti |-> st.besti, bestj |-> st.bestj, bestsize |-> st.bestsize]

\* return Match(besti, bestj, bestsize)
Match(m) == [a |-> m.besti, b |-> m.bestj, size |-> m.bestsize]

\* SequenceMatcher.find_longest_match(alo, ahi, blo, bhi) -> Match(a, b, size):
\* the longest block of non-junk elements, extended by matching non-junk
\* elements to the left and to the right, then by matching junk elements.
find_longest_match(isjunk, a, b, b2j, alo, ahi, blo, bhi) ==
    Match(
      ExtendRight(a, b, bjunk(isjunk, b), TRUE, ahi, bhi,
        ExtendLeft(a, b, bjunk(isjunk, b), TRUE, alo, blo,
          ExtendRight(a, b, bjunk(isjunk, b), FALSE, ahi, bhi,
            ExtendLeft(a, b, bjunk(isjunk, b), FALSE, alo, blo,
              BestOf(OuterLoop(a, b2j, alo, ahi, blo, bhi,
                  [besti |-> alo, bestj |-> blo, bestsize |-> 0, j2len |-> {}])))))))

\* One turn of the loop of get_matching_blocks on st = [queue, found], r the
\* range popped from the queue and x the match found in it: when x is not
\* empty it is recorded, and the range left of it and then the range right
\* of it are pushed when they are not empty.
MatchStep(st, r, x) ==
    IF x.size > 0
    THEN [queue |-> SubSeq(st.queue, 1, Len(st.queue) - 1)
                     \o (IF r.alo < x.a /\ r.blo < x.b
                         THEN <<[alo |-> r.alo, ahi |-> x.a, blo |-> r.blo, bhi |-> x.b]>>
                         ELSE <<>>)
                     \o (IF x.a + x.size < r.ahi /\ x.b + x.size < r.bhi
                         THEN <<[alo |-> x.a + x.size, ahi |-> r.ahi,
                                 blo |-> x.b + x.size, bhi |-> r.bhi]>>
                         ELSE <<>>),
          found |-> st.found \cup {x}]
    ELSE [queue |-> SubSeq(st.queue, 1, Len(st.queue) - 1), found |-> st.found]

\* The loop "while queue" of get_matching_blocks: the last range of the
\* queue is popped and searched for its longest match.
RECURSIVE MatchQueue(_, _, _, _, _)
MatchQueue(isjunk, a, b, b2j, st) ==
    IF st.queue = <<>> THEN st.found
    ELSE MatchQueue(isjunk, a, b, b2j,
           MatchStep(st, st.queue[Len(st.queue)],
              find_longest_match(isjunk, a, b, b2j,
                 st.queue[Len(st.queue)].alo, st.queue[Len(st.queue)].ahi,
                 st.queue[Len(st.queue)].blo, st.queue[Len(st.queue)].bhi)))

\* queue = [(0, la, 0, lb)], matching_blocks = []
WholeRange(a, b) ==
    [queue |-> <<[alo |-> 0, ahi |-> Len(a), blo |-> 0, bhi |-> Len(b)]>>, found |-> {}]

\* matching_blocks.sort(): by (a, b, size).
BlockBefore(x, y) ==
    \/ x.a < y.a
    \/ x.a = y.a /\ x.b < y.b
    \/ x.a = y.a /\ x.b = y.b /\ x.size < y.size

RECURSIVE SortBlocks(_)
SortBlocks(S) ==
    IF S = {} THEN <<>>
    ELSE LET first == CHOOSE x \in S : \A y \in S \ {x} : BlockBefore(x, y)
         IN  <<first>> \o SortBlocks(S \ {first})

\* The loop of get_matching_blocks that collapses adjacent equal blocks;
\* cur = (i1, j1, k1).
RECURSIVE Collapse(_, _, _)
Collapse(bs, cur, acc) ==
    IF bs = <<>>
    THEN IF cur.size > 0 THEN Append(acc, cur) ELSE acc
    ELSE LET nxt == Head(bs) IN
         IF cur.a + cur.size = nxt.a /\ cur.b + cur.size = nxt.b
         THEN Collapse(Tail(bs), [cur EXCEPT !.size = cur.size + nxt.size], acc)
         ELSE Collapse(Tail(bs), nxt,
                       IF cur.size > 0 THEN Append(acc, cur) ELSE acc)

\* get_matching_blocks without the sentinel appended.
get_matching_blocks_no_sentinel(isjunk, a, b) ==
    Collapse(SortBlocks(MatchQueue(isjunk, a, b, chain_b(isjunk, b), WholeRange(a, b))),
             [a |-> 0, b |-> 0, size |-> 0], <<>>)

\* SequenceMatcher.get_matching_blocks(): the matches found, sorted, adjacent
\* ones collapsed, and the sentinel (la, lb, 0) appended.
get_matching_blocks(isjunk, a, b) ==
    Append(
      Collapse(SortBlocks(MatchQueue(isjunk, a, b, chain_b(isjunk, b), WholeRange(a, b))),
               [a |-> 0, b |-> 0, size |-> 0], <<>>),
      [a |-> Len(a), b |-> Len(b), size |-> 0])

\* _calculate_ratio without the factor 2.
calculate_ratio_single(matches, length) ==
    IF length # 0 THEN [num |-> matches, den |-> length]
    ELSE [num |-> 1, den |-> 1]

\* _calculate_ratio returning 0.0 for two empty sequences.
calculate_ratio_empty_zero(matches, length) ==
    IF length # 0 THEN [num |-> 2 * matches, den |-> length]
    ELSE [num |-> 0, den |-> 1]

\* _calculate_ratio without the test "if length": it divides by 0, kept here
\* as the denominator 0, for two empty sequences.
calculate_ratio_unguarded(matches, length) == [num |-> 2 * matches, den |-> length]

\* _calculate_ratio(matches, length): the float 2.0*matches/length is kept as
\* the exact fraction num/den; the both-empty case returns 1.0.
calculate_ratio(matches, length) ==
    IF length # 0 THEN [num |-> 2 * matches, den |-> length]
    ELSE [num |-> 1, den |-> 1]

\* SequenceMatcher.ratio()
ratio(isjunk, a, b) ==
    calculate_ratio(SumSizes(get_matching_blocks(isjunk, a, b)), Len(a) + Len(b))

\* Comparison of two ratio values as Python compares the floats.
RatioEq(r, s) == r.num * s.den = s.num * r.den

IsOne(r) == r.num = r.den

IsZero(r) == r.num = 0

(***************************************************************************)
(* Opcodes ("hunks") and difflib.unified_diff.                             *)
(***************************************************************************)
Opcode(tag, i1, i2, j1, j2) == [tag |-> tag, i1 |-> i1, i2 |-> i2, j1 |-> j1, j2 |-> j2]

\* OpcodeLoop with "<=" for "<" in the test for a replace hunk.
RECURSIVE OpcodeLoopInclusive(_, _, _, _)
OpcodeLoopInclusive(bs, i, j, answer) ==
    IF bs = <<>> THEN answer
    ELSE LET ai == Head(bs).a
             bj == Head(bs).b
             size == Head(bs).size
             gap == IF i <= ai /\ j <= bj THEN <<Opcode("replace", i, ai, j, bj)>>
                    ELSE IF i < ai THEN <<Opcode("delete", i, ai, j, bj)>>
                    ELSE IF j < bj THEN <<Opcode("insert", i, ai, j, bj)>>
                    ELSE <<>>
             eq == IF size # 0
                   THEN <<Opcode("equal", ai, ai + size, bj, bj + size)>>
                   ELSE <<>>
         IN  OpcodeLoopInclusive(Tail(bs), ai + size, bj + size, answer \o gap \o eq)

\* The loop of get_opcodes over the matching blocks, (i, j) the position
\* reached in a and b.
RECURSIVE OpcodeLoop(_, _, _, _)
OpcodeLoop(bs, i, j, answer) ==
    IF bs = <<>> THEN answer
    ELSE LET ai == Head(bs).a
             bj == Head(bs).b
             size == Head(bs).size
             gap == IF i < ai /\ j < bj THEN <<Opcode("replace", i, ai, j, bj)>>
                    ELSE IF i < ai THEN <<Opcode("delete", i, ai, j, bj)>>
                    ELSE IF j < bj THEN <<Opcode("insert", i, ai, j, bj)>>
                    ELSE <<>>
             eq == IF size # 0
                   THEN <<Opcode("equal", ai, ai + size, bj, bj + size)>>
                   ELSE <<>>
         IN  OpcodeLoop(Tail(bs), ai + size, bj + size, answer \o gap \o eq)

\* SequenceMatcher.get_opcodes()
get_opcodes(isjunk, a, b) == OpcodeLoop(get_matching_blocks(isjunk, a, b), 0, 0, <<>>)

\* The loop of get_grouped_opcodes over the codes; st = [group, groups].
RECURSIVE GroupLoop(_, _, _)
GroupLoop(codes, n, st) ==
    IF codes = <<>> THEN st
    ELSE LET c == Head(codes) IN
         IF c.tag = "equal" /\ c.i2 - c.i1 > n + n
         THEN GroupLoop(Tail(codes), n,
                [group |-> <<Opcode(c.tag, Max(c.i1, c.i2 - n), c.i2,
                                    Max(c.j1, c.j2 - n), c.j2)>>,
                 groups |-> Append(st.groups,
                               Append(st.group,
                                  Opcode(c.tag, c.i1, Min(c.i2, c.i1 + n),
                                         c.j1, Min(c.j2, c.j1 + n))))])
         ELSE GroupLoop(Tail(codes), n, [st EXCEPT !.group = Append(st.group, c)])

\* SequenceMatcher.get_grouped_opcodes(n)
get_grouped_opcodes(codes, n) ==
    LET codes0 == IF codes = <<>> THEN <<Opcode("equal", 0, 1, 0, 1)>> ELSE codes
        f == codes0[1]
        codes1 == IF f.tag = "equal"
                  THEN [codes0 EXCEPT ![1] =
                          Opcode(f.tag, Max(f.i1, f.i2 - n), f.i2, Max(f.j1, f.j2 - n), f.j2)]
                  ELSE codes0
        l == codes1[Len(codes1)]
        codes2 == IF l.tag = "equal"
                  THEN [codes1 EXCEPT ![Len(codes1)] =
                          Opcode(l.tag, l.i1, Min(l.i2, l.i1 + n), l.j1, Min(l.j2, l.j1 + n))]
                  ELSE codes1
        st == GroupLoop(codes2, n, [group |-> <<>>, groups |-> <<>>])
    IN  IF st.group # <<>> /\ ~(Len(st.group) = 1 /\ st.group[1].tag = "equal")
        THEN Append(st.groups, st.group)
        ELSE st.groups

\* '{}'.format(n) for n >= 0: the decimal digits of n.
Digit(d) == <<"0", "1", "2", "3", "4", "5", "6", "7", "8", "9">>[d + 1]

RECURSIVE Decimal(_)
Decimal(n) == IF n < 10 THEN <<Digit(n)>> ELSE Append(Decimal(n \div 10), Digit(n % 10))

\* _format_range_unified(start, stop)
format_range_unified(start, stop) ==
    LET beginning == start + 1
        length == stop - start
    IN  IF length = 1 THEN Decimal(beginning)
        ELSE IF length = 0 THEN Decimal(beginning - 1) \o <<",">> \o Decimal(length)
        ELSE Decimal(beginning) \o <<",">> \o Decimal(length)

\* prefix + line, for every line of s[lo:hi].
Prefixed(prefix, s, lo, hi) == [k \in 1..(hi - lo) |-> <<prefix>> \o s[lo + k]]

\* The lines unified_diff yields for the opcodes of one group.
RECURSIVE GroupLines(_, _, _)
GroupLines(group, a, b) ==
    IF group = <<>> THEN <<>>
    ELSE LET c == Head(group)
             here == IF c.tag = "equal" THEN Prefixed(" ", a, c.i1, c.i2)
                     ELSE (IF c.tag \in {"replace", "delete"}
                           THEN Prefixed("-", a, c.i1, c.i2) ELSE <<>>)
                          \o (IF c.tag \in {"replace", "insert"}
                              THEN Prefixed("+", b, c.j1, c.j2) ELSE <<>>)
         IN  here \o GroupLines(Tail(group), a, b)

\* '@@ -{} +{} @@{}'.format(file1_range, file2_range, lineterm), lineterm = ''
HunkHeader(group) ==
    LET first == group[1]
        last == group[Len(group)]
    IN  <<"@", "@", " ", "-">> \o format_range_unified(first.i1, last.i2)
          \o <<" ", "+">> \o format_range_unified(first.j1, last.j2)
          \o <<" ", "@", "@">>

RECURSIVE HunkLines(_, _, _)
HunkLines(groups, a, b) ==
    IF groups = <<>> THEN <<>>
    ELSE <<HunkHeader(Head(groups))>> \o GroupLines(Head(groups), a, b)
           \o HunkLines(Tail(groups), a, b)

\* list(unified_diff(a, b, fromfile, tofile, lineterm='', n=n)), given the
\* opcodes (codes) of SequenceMatcher(None, a, b).
unified_diff(codes, a, b, fromfile, tofile, n) ==
    LET groups == get_grouped_opcodes(codes, n)
    IN  IF groups = <<>> THEN <<>>
        ELSE << <<"-", "-", "-", " ">> \o fromfile, <<"+", "+", "+", " ">> \o tofile >>
               \o HunkLines(groups, a, b)

(***************************************************************************)
(* Strings and lines.                                                      *)
(***************************************************************************)
\* s.startswith(prefix)
startswith(s, prefix) == Len(s) >= Len(prefix) /\ SubSeq(s, 1, Len(prefix)) = prefix

\* needle in s
Contains(s, needle) ==
    \E k \in 0..(Len(s) - Len(needle)) : SubSeq(s, k + 1, k + Len(needle)) = needle

Whitespace == {" ", "\n", "\t", "\r"}

\* s.strip()
strip(s) ==
    LET keep == {k \in 1..Len(s) : s[k] \notin Whitespace}
    IN  IF keep = {} THEN <<>>
        ELSE SubSeq(s, CHOOSE k \in keep : \A x \in keep : k <= x,
                       CHOOSE k \in keep : \A x \in keep : x <= k)

\* f.readlines(): the lines of the text, each with its "\n" but perhaps the last.
readlines(text) ==
    LET ends == {k \in 1..Len(text) : text[k] = "\n" \/ k = Len(text)}
        rank == {<<e, Cardinality({x \in ends : x <= e})>> : e \in ends}
        End(n) == (CHOOSE p \in rank : p[2] = n)[1]
    IN  [n \in 1..Cardinality(ends) |->
            SubSeq(text, IF n = 1 THEN 1 ELSE End(n - 1) + 1, End(n))]

\* ''.join(lines)
RECURSIVE Join(_)
Join(lines) == IF lines = <<>> THEN <<>> ELSE Head(lines) \o Join(Tail(lines))

\* Split returning no piece at all for the empty text.
SplitOrNothing(text, sep) ==
    LET at == {k \in 1..(Len(text) - Len(sep) + 1) : SubSeq(text, k, k + Len(sep) - 1) = sep}
        rank == {<<k, Cardinality({x \in at : x <= k})>> : k \in at}
        At(n) == (CHOOSE p \in rank : p[2] = n)[1]
    IN  IF text = <<>> THEN <<>>
        ELSE [n \in 1..(Cardinality(at) + 1) |->
                SubSeq(text, IF n = 1 THEN 1 ELSE At(n - 1) + Len(sep),
                             IF n = Cardinality(at) + 1 THEN Len(text) ELSE At(n) - 1)]

\* text.split(sep), and re.split(sep, text) for a pattern sep that is plain
\* text: the pieces of text between the occurrences of sep (occurrences of
\* the separators used here, "\n" and "\n## ", cannot overlap).
Split(text, sep) ==
    LET at == {k \in 1..(Len(text) - Len(sep) + 1) : SubSeq(text, k, k + Len(sep) - 1) = sep}
        rank == {<<k, Cardinality({x \in at : x <= k})>> : k \in at}
        At(n) == (CHOOSE p \in rank : p[2] = n)[1]
    IN  [n \in 1..(Cardinality(at) + 1) |->
            SubSeq(text, IF n = 1 THEN 1 ELSE At(n - 1) + Len(sep),
                         IF n = Cardinality(at) + 1 THEN Len(text) ELSE At(n) - 1)]

(***************************************************************************)
(* Input texts.                                                            *)
(***************************************************************************)
Chars == {"a", "b", "c"}

RECURSIVE SeqsUpTo(_, _)
SeqsUpTo(S, n) ==
    IF n = 0 THEN {<<>>}
    ELSE LET shorter == SeqsUpTo(S, n - 1)
         IN  shorter \cup {Append(s, c) : s \in {t \in shorter : Len(t) = n - 1}, c \in S}

\* Every text of up to MaxLen characters over two characters, and of up to
\* MaxLen - 1 characters over three.
ShortTexts == SeqsUpTo({"a", "b"}, MaxLen) \cup SeqsUpTo(Chars, MaxLen - 1)

\* Texts long enough for the popularity heuristic: an optional first
\* character followed by one repeated character.
LongTexts ==
    {Fill(c, AutojunkMinLen) : c \in Chars}
      \cup {<<d>> \o Fill(c, AutojunkMinLen - 1) : c \in Chars, d \in Chars}

Texts == ShortTexts \cup LongTexts

(***************************************************************************)
(* Texts made of markdown lines.                                           *)
(***************************************************************************)
Blank == <<>>

Body == <<"x">>

Heading == <<"#", "#", " ", "A", "b", "s", "t", "r", "a", "c", "t">>

IntroHeading ==
    <<"#", "#", " ", "1", " ", "I", "n", "t", "r", "o", "d", "u", "c", "t", "i", "o", "n">>

\* A markdown horizontal rule.
Rule == <<"-", "-", "-">>

Lines == {Blank, Body, Heading, IntroHeading, Rule}

\* The text of the given lines, each ended by "\n".
RECURSIVE TextOf(_)
TextOf(lines) ==
    IF lines = <<>> THEN <<>> ELSE Head(lines) \o <<"\n">> \o TextOf(Tail(lines))

ShortDocs == {TextOf(ls) : ls \in SeqsUpTo(Lines, MaxLines)}

\* Lines more than the diff window holds.
ManyLines == 101

\* The numbered lines lo..hi, line k being the decimal digits of k, with the
\* character "p" put in front of every line whose number is a multiple of
\* every (of no line when every = 0).
RECURSIVE Numbered(_, _, _)
Numbered(every, lo, hi) ==
    IF lo > hi THEN <<>>
    ELSE IF lo = hi
    THEN (IF every > 0 /\ lo % every = 0 THEN <<"p">> ELSE <<>>) \o Decimal(lo) \o <<"\n">>
    ELSE LET mid == (lo + hi) \div 2
         IN  Numbered(every, lo, mid) \o Numbered(every, mid + 1, hi)

\* Documents longer than the window: the numbered lines, the same with every
\* fourth line changed, and the same with every line changed.
LongDocs == {Numbered(every, 1, ManyLines) : every \in {0, 4, 1}}

Docs == ShortDocs \cup LongDocs

(***************************************************************************)
(* Texts made of "## " sections.                                           *)
(***************************************************************************)
\* The title line of section k: "S" and the digits of k.
TitleOf(k) == <<"S">> \o Decimal(k)

\* The body line of section k: eight times its letter, and a "z" after them
\* in the changed variant.
BodyOf(k, changed) ==
    Fill(<<"a", "b", "c", "d", "e", "f", "g", "h">>[k], 8)
      \o (IF changed THEN <<"z">> ELSE <<>>)

RECURSIVE SectionsText(_, _)
SectionsText(ks, changed) ==
    IF ks = <<>> THEN <<>>
    ELSE <<"#", "#", " ">> \o TitleOf(Head(ks)) \o <<"\n">>
           \o BodyOf(Head(ks), changed) \o <<"\n">>
           \o SectionsText(Tail(ks), changed)

\* The increasing sequences of section numbers out of lo..hi.
RECURSIVE Increasing(_, _)
Increasing(lo, hi) ==
    IF lo > hi THEN {<<>>}
    ELSE Increasing(lo + 1, hi) \cup {<<lo>> \o ks : ks \in Increasing(lo + 1, hi)}

\* The document title line before the first section.
Preamble == <<"#", " ", "T", "\n">>

\* Documents of some of the sections S1..S<MaxSections>, in order, with or
\* without a title line before them, with the original or the changed bodies.
SectionDocs ==
    {pre \o SectionsText(ks, changed) :
        pre \in {<<>>, Preamble}, ks \in Increasing(1, MaxSections),
        changed \in BOOLEAN}

(***************************************************************************)
(* Texts made of plain lines, blank lines, "## " headings and deeper       *)
(* headings, for the splitting into sections.                              *)
(***************************************************************************)
MaxSegmentLines == 3

\* A heading one level deeper than the level the sections are split at.
SubHeading == <<"#", "#", "#", " ", "B">>

SegmentLines == {Blank, Body, Heading, SubHeading}

SegmentDocs == {TextOf(ls) : ls \in SeqsUpTo(SegmentLines, MaxSegmentLines)}

(***************************************************************************)
(* Texts made of plain lines and the two headings detailed_diff.py looks   *)
(* for.                                                                    *)
(***************************************************************************)
MaxRegionLines == 3

RegionLines == {Body, Heading, IntroHeading}

RegionDocs == {TextOf(ls) : ls \in SeqsUpTo(RegionLines, MaxRegionLines)}

(***************************************************************************)
(* Texts for whole runs of the two scripts: the degenerate ones (empty, no *)
(* heading, a marker missing), one with both markers after its first line, *)
(* and the ones longer than the diff window.                               *)
(***************************************************************************)
MaxReportLines == 1

FullDoc == TextOf(<<Body, Heading, Body, IntroHeading, Body>>)

ReportDocs ==
    {TextOf(ls) : ls \in SeqsUpTo({Body, Heading}, MaxReportLines)}
      \cup {FullDoc}
      \cup {Numbered(every, 1, ManyLines) : every \in {0, 4}}

(***************************************************************************)
(* The two files of a worked comparison: a reference of four lines against *)
(* a candidate with one more line, and a reference with an Abstract and an *)
(* Introduction section against a candidate whose '## Abstract' line has   *)
(* lost its marker.                                                        *)
(***************************************************************************)
TitleLine == <<"#", " ", "T", "i", "t", "l", "e">>

BodyText == <<"B", "o", "d", "y", " ", "t", "e", "x", "t", ".">>

ExtraLine == <<"E", "x", "t", "r", "a", " ", "l", "i", "n", "e">>

DemotedHeading == <<"A", "b", "s", "t", "r", "a", "c", "t">>

ReferenceA == TextOf(<<TitleLine, Blank, BodyText, Blank>>)

CandidateA == TextOf(<<TitleLine, Blank, BodyText, Blank, ExtraLine>>)

ReferenceB == TextOf(<<TitleLine, Heading, BodyText, IntroHeading, BodyText>>)

CandidateB == TextOf(<<TitleLine, DemotedHeading, BodyText, IntroHeading, BodyText>>)

ScenarioDocs == {ReferenceA, CandidateA, ReferenceB, CandidateB}

(***************************************************************************)
(* Texts with a similarity around the target of test_precision.py and      *)
(* compare_modes.py: a run of one character of about ThresholdLen          *)
(* characters, followed by another character or not, and the empty text.   *)
(***************************************************************************)
ThresholdLen == 20

ThresholdTexts ==
    {Fill("a", n) \o Fill("b", m) : n \in (ThresholdLen - 2)..ThresholdLen, m \in 0..1}
      \cup {<<>>}

\* data/output_fast_mode.md, which compare_modes.py reads too.
FastTexts == {<<>>, Fill("a", ThresholdLen)}

\* How many times the scripts are run on the same two files.
MaxRuns == 2

\* A result not computed yet.
None == [num |-> -1, den |-> 1]

\* Nothing computed yet by compare_detailed.py and detailed_diff.py.
NotCompared ==
    /\ pc = "start"
    /\ sim = None
    /\ blocks = <<>>
    /\ total_sim = None
    /\ opcodes = <<>>
    /\ diff = <<>>
    /\ issues = <<>>
    /\ counts = [missing_breaks |-> 0, extra_breaks |-> 0,
                 missing_headers |-> 0, wrong_joins |-> 0]
    /\ shown = <<>>
    /\ sections = <<>>
    /\ docling_sections = <<>>
    /\ precision_sections = <<>>
    /\ abs_start_d = 0
    /\ abs_start_p = 0
    /\ intro_start_d = 0
    /\ intro_start_p = 0
    /\ abstract_d = <<>>
    /\ abstract_p = <<>>
    /\ abs_sim = None
    /\ runs = 1
    /\ previous = [step |-> "start", report |-> <<>>]

\* No exit status yet.
NoExit == -1

\* No answer of the hub yet.
NoAnswer == [raised |-> FALSE, models |-> <<>>]

\* Nothing printed yet by test_precision.py and compare_modes.py.
NoVerdict ==
    /\ status = ""
    /\ still_need = None
    /\ fast_sim = None
    /\ precision_sim = None
    /\ improvement = None
    /\ modes_status = ""

\* download_alternative_onnx_models.py has not been started.
NoDownload ==
    /\ installed = FALSE
    /\ dl_pc = "idle"
    /\ success = FALSE
    /\ attempted = <<>>
    /\ hub = NoAnswer
    /\ term = 0
    /\ saved = {}
    /\ printed = <<>>
    /\ exit_code = NoExit

NoResults == NotCompared /\ NoVerdict /\ NoDownload

Init ==
    /\ docling \in Texts
    /\ precision \in Texts
    /\ NoResults

InitDocs ==
    /\ docling \in Docs
    /\ precision \in Docs
    /\ NoResults

InitSections ==
    /\ docling \in SectionDocs
    /\ precision \in SectionDocs
    /\ NoResults

\* Every reference text made of up to MaxSegmentLines lines, against the
\* candidate texts of at most one line.
InitSegment ==
    /\ docling \in SegmentDocs
    /\ precision \in {TextOf(ls) : ls \in SeqsUpTo(SegmentLines, 1)}
    /\ NoResults

InitRegion ==
    /\ docling \in RegionDocs
    /\ precision \in RegionDocs
    /\ NoResults

InitReport ==
    /\ docling \in ReportDocs
    /\ precision \in ReportDocs
    /\ NoResults

InitScenario ==
    /\ docling \in ScenarioDocs
    /\ precision \in ScenarioDocs
    /\ NoResults

\* The script is started, with huggingface_hub installed or not.
InitDownload ==
    /\ docling = <<>>
    /\ precision = <<>>
    /\ NotCompared
    /\ NoVerdict
    /\ installed \in BOOLEAN
    /\ dl_pc = "main"
    /\ success = FALSE
    /\ attempted = <<>>
    /\ hub = NoAnswer
    /\ term = 0
    /\ saved = {}
    /\ printed = <<>>
    /\ exit_code = NoExit

InitThreshold ==
    /\ docling \in ThresholdTexts
    /\ precision \in ThresholdTexts
    /\ NoResults

\* compare_detailed.py, test_precision.py, compare_modes.py:
\*   sim = SequenceMatcher(None, precision, docling).ratio() * 100
\* blocks keeps the matching blocks ratio() sums up.
OverallSimilarity ==
    /\ pc = "start"
    /\ blocks' = get_matching_blocks(NoJunk, precision, docling)
    /\ sim' = calculate_ratio(SumSizes(blocks'), Len(precision) + Len(docling))
    /\ pc' = "overall"
    /\ UNCHANGED <<thresholdVars, downloadVars, docling, precision, docling_sections, precision_sections, abs_start_d, abs_start_p, intro_start_d, intro_start_p, abstract_d, abstract_p, abs_sim, runs, previous, total_sim, opcodes, diff, issues, counts, shown, sections>>

\* detailed_diff.py, run on the same two files:
\*   total_sim = SequenceMatcher(None, ''.join(docling_lines),
\*                               ''.join(precision_lines)).ratio() * 100
TotalSim ==
    /\ pc = "overall"
    /\ total_sim' = ratio(NoJunk, docling, precision)
    /\ pc' = "total"
    /\ UNCHANGED <<thresholdVars, downloadVars, docling, precision, docling_sections, precision_sections, abs_start_d, abs_start_p, intro_start_d, intro_start_p, abstract_d, abstract_p, abs_sim, runs, previous, sim, blocks, opcodes, diff, issues, counts, shown, sections>>

\* The first lines of each file the diffs look at.
Window == 100

\* The diff lines detailed_diff.py's loop looks at.
DiffCap == 200

Missing == <<"m", "i", "s", "s", "i", "n", "g">>

Extra == <<"e", "x", "t", "r", "a">>

IsFileOrHunkHeader(line) ==
    \/ startswith(line, <<"-", "-", "-">>)
    \/ startswith(line, <<"+", "+", "+">>)
    \/ startswith(line, <<"@", "@">>)

\* The loop of detailed_diff.py over diff[:200]: a line that is no header and
\* starts with "-" is appended as ('missing', line[1:].strip()), one that
\* starts with "+" as ('extra', line[1:].strip()).
IsIssueLine(line) ==
    /\ ~IsFileOrHunkHeader(line)
    /\ startswith(line, <<"-">>) \/ startswith(line, <<"+">>)

CollectIssues(d) ==
    LET hits == SelectSeq(Slice(d, 0, DiffCap), IsIssueLine)
    IN  [k \in 1..Len(hits) |->
            [t |-> IF startswith(hits[k], <<"-">>) THEN Missing ELSE Extra,
             content |-> strip(Tail(hits[k]))]]

\* sum(1 for t, content in issues if ...)
IsMissingBreak(x) == x.t = Missing /\ x.content = <<>>

IsExtraBreak(x) == x.t = Extra /\ x.content = <<>>

IsMissingHeader(x) == x.t = Missing /\ startswith(x.content, <<"#", "#">>)

\* t == 'extra' and 'Abstract' in content or 'Introduction' in content
IsWrongJoin(x) ==
    \/ x.t = Extra /\ Contains(x.content, <<"A", "b", "s", "t", "r", "a", "c", "t">>)
    \/ Contains(x.content, <<"I", "n", "t", "r", "o", "d", "u", "c", "t", "i", "o", "n">>)

KeyIssues(is) ==
    [missing_breaks |-> Len(SelectSeq(is, IsMissingBreak)),
     extra_breaks |-> Len(SelectSeq(is, IsExtraBreak)),
     missing_headers |-> Len(SelectSeq(is, IsMissingHeader)),
     wrong_joins |-> Len(SelectSeq(is, IsWrongJoin))]

\* DetailedDiff cutting the two lists of lines down to the window in place
\* ("del docling_lines[100:]") instead of slicing them.
DetailedDiffInPlace ==
    /\ pc = "start"
    /\ docling' = Join(Slice(readlines(docling), 0, Window))
    /\ precision' = Join(Slice(readlines(precision), 0, Window))
    /\ opcodes' = get_opcodes(NoJunk, readlines(docling'), readlines(precision'))
    /\ diff' = unified_diff(opcodes', readlines(docling'), readlines(precision'),
                  <<"d", "o", "c", "l", "i", "n", "g">>,
                  <<"p", "r", "e", "c", "i", "s", "i", "o", "n">>, 3)
    /\ issues' = CollectIssues(diff')
    /\ counts' = KeyIssues(issues')
    /\ pc' = "detailed"
    /\ UNCHANGED <<thresholdVars, downloadVars, docling_sections, precision_sections, abs_start_d, abs_start_p,
                   intro_start_d, intro_start_p, abstract_d, abstract_p, abs_sim, runs,
                   previous, sim, blocks, total_sim, shown, sections>>

\* DetailedDiff without "issues = []": it appends to the issues it finds.
DetailedDiffAccumulating ==
    /\ pc = "start"
    /\ LET a == Slice(readlines(docling), 0, Window)
           b == Slice(readlines(precision), 0, Window)
       IN  /\ opcodes' = get_opcodes(NoJunk, a, b)
           /\ diff' = unified_diff(opcodes', a, b,
                         <<"d", "o", "c", "l", "i", "n", "g">>,
                         <<"p", "r", "e", "c", "i", "s", "i", "o", "n">>, 3)
    /\ issues' = issues \o CollectIssues(diff')
    /\ counts' = KeyIssues(issues')
    /\ pc' = "detailed"
    /\ UNCHANGED <<thresholdVars, downloadVars, docling, precision, docling_sections, precision_sections, abs_start_d,
                   abs_start_p, intro_start_d, intro_start_p, abstract_d, abstract_p,
                   abs_sim, runs, previous, sim, blocks, total_sim, shown, sections>>

\* detailed_diff.py lines 4-42: the unified diff of the first 100 lines of
\* the two files, the issues found in its first 200 lines, and their counts.
DetailedDiff ==
    /\ pc = "start"
    /\ LET a == Slice(readlines(docling), 0, Window)
           b == Slice(readlines(precision), 0, Window)
       IN  /\ opcodes' = get_opcodes(NoJunk, a, b)
           /\ diff' = unified_diff(opcodes', a, b,
                         <<"d", "o", "c", "l", "i", "n", "g">>,
                         <<"p", "r", "e", "c", "i", "s", "i", "o", "n">>, 3)
    /\ issues' = CollectIssues(diff')
    /\ counts' = KeyIssues(issues')
    /\ pc' = "detailed"
    /\ UNCHANGED <<thresholdVars, downloadVars, docling, precision, docling_sections, precision_sections, abs_start_d, abs_start_p, intro_start_d, intro_start_p, abstract_d, abstract_p, abs_sim, runs, previous, sim, blocks, total_sim, shown, sections>>

\* The hunks compare_detailed.py's loop shows before it stops.
HunkLimit == 10

IsFileHeader(line) ==
    startswith(line, <<"-", "-", "-">>) \/ startswith(line, <<"+", "+", "+">>)

IsHunkHeader(line) == ~IsFileHeader(line) /\ startswith(line, <<"@", "@">>)

\* The lines the loop of compare_detailed.py prints something for.
IsShown(line) ==
    /\ ~IsFileHeader(line)
    /\ \/ startswith(line, <<"@", "@">>)
       \/ startswith(line, <<"-">>)
       \/ startswith(line, <<"+">>)

\* The loop of compare_detailed.py over diff: file headers are skipped, a
\* hunk header is printed and counted and the loop breaks once more than 10
\* are counted, a "-" line is printed as EXPECTED and a "+" line as GOT.
FirstDifferences(d) ==
    LET hdrs == {k \in 1..Len(d) : IsHunkHeader(d[k])}
        cut == IF Cardinality(hdrs) > HunkLimit
               THEN CHOOSE k \in hdrs : Cardinality({h \in hdrs : h <= k}) = HunkLimit + 1
               ELSE Len(d)
        hits == SelectSeq(SubSeq(d, 1, cut), IsShown)
    IN  [k \in 1..Len(hits) |->
            IF startswith(hits[k], <<"@", "@">>) THEN [kind |-> "hunk", text |-> hits[k]]
            ELSE IF startswith(hits[k], <<"-">>)
            THEN [kind |-> "EXPECTED", text |-> Tail(hits[k])]
            ELSE [kind |-> "GOT", text |-> Tail(hits[k])]]

\* compare_detailed.py lines 20-50: the unified diff, with one line of
\* context, of the first 100 lines of the two files, and what the loop over
\* it prints.
CompareDetailedDiff ==
    /\ pc = "start"
    /\ LET a == Slice(Split(docling, <<"\n">>), 0, Window)
           b == Slice(Split(precision, <<"\n">>), 0, Window)
       IN  /\ opcodes' = get_opcodes(NoJunk, a, b)
           /\ diff' = unified_diff(opcodes', a, b, <<>>, <<>>, 1)
    /\ shown' = FirstDifferences(diff')
    /\ pc' = "first"
    /\ UNCHANGED <<thresholdVars, downloadVars, docling, precision, docling_sections, precision_sections, abs_start_d, abs_start_p, intro_start_d, intro_start_p, abstract_d, abstract_p, abs_sim, runs, previous, sim, blocks, total_sim, issues, counts, sections>>

\* The sections of each file compare_detailed.py looks at.
SectionLimit == 5

\* A docling section shorter than this is skipped.
MinSectionLen == 10

\* The characters of a title that are printed.
TitleLen == 50

\* The separator without the space that ends the heading marker.
HeadingSepAnyLevel == <<"\n", "#", "#">>

\* The separator without the newline that begins it.
HeadingSepNoNewline == <<"#", "#", " ">>

\* The pattern of re.split(r'\n## ', ...).
HeadingSep == <<"\n", "#", "#", " ">>

\* The loop of compare_detailed.py over
\* enumerate(zip(docling_sections[:5], precision_sections[:5])), from index i.
RECURSIVE SectionLoop(_, _, _)
SectionLoop(ds, ps, i) ==
    IF i >= Min(Len(ds), Len(ps)) THEN <<>>
    ELSE LET d_sec == ds[i + 1]
             p_sec == ps[i + 1]
         IN  (IF Len(d_sec) < MinSectionLen THEN <<>>
              ELSE <<[i |-> i,
                      title |-> Slice(Split(d_sec, <<"\n">>)[1], 0, TitleLen),
                      sec_sim |-> ratio(NoJunk, d_sec, p_sec)]>>)
             \o SectionLoop(ds, ps, i + 1)

\* compare_detailed.py lines 66-76: both texts are split at "\n## ", the
\* pieces are paired by position, and a similarity is printed for each pair
\* among the first five whose docling piece has at least 10 characters.
SectionSimilarity ==
    /\ pc = "start"
    /\ docling_sections' = Split(docling, HeadingSep)
    /\ precision_sections' = Split(precision, HeadingSep)
    /\ sections' = SectionLoop(Slice(docling_sections', 0, SectionLimit),
                               Slice(precision_sections', 0, SectionLimit), 0)
    /\ pc' = "sections"
    /\ UNCHANGED <<thresholdVars, downloadVars, docling, precision, abs_start_d, abs_start_p, intro_start_d, intro_start_p, abstract_d, abstract_p, abs_sim, runs, previous, sim, blocks, total_sim, opcodes, diff,
                   issues, counts, shown>>

\* lines[lo:hi] for 0 <= lo, which is empty when hi <= lo.
SliceFrom(lines, lo, hi) == IF hi <= lo THEN <<>> ELSE Slice(lines, lo, hi)

\* def find_section(lines, start_pattern): the index of the first line that
\* contains start_pattern, 0 when no line does.
find_section(lines, start_pattern) ==
    LET hits == {i \in 0..(Len(lines) - 1) : Contains(lines[i + 1], start_pattern)}
    IN  IF hits = {} THEN 0 ELSE CHOOSE i \in hits : \A x \in hits : i <= x

\* detailed_diff.py lines 55-65: the Abstract section of each file, from the
\* line of '## Abstract' up to the line of '## 1 Introduction', and their
\* similarity, computed only when none of the four indices is 0; abstract_d,
\* abstract_p and abs_sim are not assigned otherwise.
AbstractSection ==
    /\ pc = "start"
    /\ abs_start_d' = find_section(readlines(docling), Heading)
    /\ abs_start_p' = find_section(readlines(precision), Heading)
    /\ intro_start_d' = find_section(readlines(docling), IntroHeading)
    /\ intro_start_p' = find_section(readlines(precision), IntroHeading)
    /\ IF abs_start_d' # 0 /\ abs_start_p' # 0 /\ intro_start_d' # 0 /\ intro_start_p' # 0
       THEN /\ abstract_d' = Join(SliceFrom(readlines(docling), abs_start_d', intro_start_d'))
            /\ abstract_p' = Join(SliceFrom(readlines(precision), abs_start_p', intro_start_p'))
            /\ abs_sim' = ratio(NoJunk, abstract_d', abstract_p')
       ELSE /\ abstract_d' = <<>>
            /\ abstract_p' = <<>>
            /\ abs_sim' = None
    /\ pc' = "abstract"
    /\ UNCHANGED <<thresholdVars, downloadVars, docling, precision, sim, blocks, total_sim, opcodes, diff, issues, counts,
                   shown, sections, docling_sections, precision_sections, runs, previous>>

(***************************************************************************)
(* test_precision.py and compare_modes.py.  A similarity is kept as the    *)
(* fraction ratio() returns, num / den; the percentage the scripts work    *)
(* with is 100 * num / den.  A difference of percentages is kept as a      *)
(* fraction of a percent.                                                  *)
(***************************************************************************)
\* The target both scripts compare the similarity with.
Target == 95

\* The comparison with ">" in place of ">=".
PassesTargetStrict(s) == 100 * s.num > Target * s.den

\* sim >= 95
PassesTarget(s) == 100 * s.num >= Target * s.den

\* sim < 95
BelowTarget(s) == 100 * s.num < Target * s.den

\* 95 - sim
Shortfall(s) == [num |-> Target * s.den - 100 * s.num, den |-> s.den]

\* precision_sim - fast_sim
Difference(p, f) ==
    [num |-> 100 * (p.num * f.den - f.num * p.den), den |-> p.den * f.den]

\* test_precision.py lines 10-20: the similarity, the status line, and the
\* 'Still need' line when sim < 95.
TestPrecision ==
    /\ pc = "start"
    /\ blocks' = get_matching_blocks(NoJunk, precision, docling)
    /\ sim' = calculate_ratio(SumSizes(blocks'), Len(precision) + Len(docling))
    /\ status' = IF PassesTarget(sim') THEN "PASS" ELSE "NEEDS WORK"
    /\ still_need' = IF BelowTarget(sim') THEN Shortfall(sim') ELSE None
    /\ pc' = "tested"
    /\ UNCHANGED <<downloadVars, docling, precision, total_sim, opcodes, diff, issues, counts,
                   shown, sections, docling_sections, precision_sections,
                   abs_start_d, abs_start_p, intro_start_d, intro_start_p,
                   abstract_d, abstract_p, abs_sim, runs, previous,
                   fast_sim, precision_sim, improvement, modes_status>>

\* compare_modes.py lines 13-25: the similarity of the fast-mode text and of
\* the precision-mode text with the reference, their difference, and the status.
CompareModes ==
    /\ pc = "start"
    /\ \E fast \in FastTexts : fast_sim' = ratio(NoJunk, fast, docling)
    /\ precision_sim' = ratio(NoJunk, precision, docling)
    /\ improvement' = Difference(precision_sim', fast_sim')
    /\ modes_status' = IF PassesTarget(precision_sim') THEN "PASSED" ELSE "NEEDS WORK"
    /\ pc' = "modes"
    /\ UNCHANGED <<downloadVars, docling, precision, sim, blocks, total_sim, opcodes, diff,
                   issues, counts, shown, sections, docling_sections, precision_sections,
                   abs_start_d, abs_start_p, intro_start_d, intro_start_p,
                   abstract_d, abstract_p, abs_sim, runs, previous, status, still_need>>

\* Everything the two scripts have computed.
Report ==
    <<sim, blocks, total_sim, opcodes, diff, issues, counts, shown, sections,
      docling_sections, precision_sections, abs_start_d, abs_start_p,
      intro_start_d, intro_start_p, abstract_d, abstract_p, abs_sim>>

\* The scripts are started again on the same two files.  What the run
\* before has computed is remembered in previous; every value is left as it
\* is, so a step that read a value of the earlier run instead of computing
\* it afresh would show.
Again ==
    /\ pc # "start"
    /\ runs < MaxRuns
    /\ previous' = [step |-> pc, report |-> Report]
    /\ runs' = runs + 1
    /\ pc' = "start"
    /\ UNCHANGED <<thresholdVars, downloadVars, docling, precision, sim, blocks, total_sim, opcodes, diff, issues, counts,
                   shown, sections, docling_sections, precision_sections,
                   abs_start_d, abs_start_p, intro_start_d, intro_start_p,
                   abstract_d, abstract_p, abs_sim>>

(***************************************************************************)
(* scripts/download_alternative_onnx_models.py: main() calls the download  *)
(* functions one after the other until one returns True.  What the hub     *)
(* answers is not in the script's hands: every call of a download function *)
(* gets an answer chosen among the ones the hub can give.                  *)
(***************************************************************************)
\* The most models a search of the hub returns here.
MaxModels == 2

\* What happens with one repository or model inside a download function:
\*   "no_onnx"         list_repo_files returns no file ending with '.onnx';
\*   "list_error"      list_repo_files raises;
\*   "download_error"  hf_hub_download or shutil.copy raises;
\*   "ok"              the first '.onnx' file is copied under models/.
RepoAnswers == {"no_onnx", "list_error", "download_error", "ok"}

\*   "metadata_error"  the file is copied and writing its metadata raises.
ModelAnswers == RepoAnswers \cup {"metadata_error"}

\* api.list_models(search=..., limit=...): it raises, or it gives models.
SearchAnswers ==
    {[raised |-> TRUE, models |-> <<>>]}
      \cup {[raised |-> FALSE, models |-> ms] : ms \in SeqsUpTo(ModelAnswers, MaxModels)}

\* repos_to_try of download_dit_onnx.
DitRepos == <<"microsoft/dit-base", "microsoft/dit-large">>

\* repos of download_layoutlmv3_onnx.
LayoutRepos == <<"microsoft/layoutlmv3-base", "microsoft/layoutlmv3-large">>

\* search_terms of search_and_download_any_onnx.
SearchTerms ==
    <<"document layout onnx", "pdf layout onnx", "page layout onnx",
      "layout detection onnx">>

\* One answer for each repository of the list repos.
ListAnswers(repos) ==
    {[raised |-> FALSE, models |-> ms] :
        ms \in {rs \in SeqsUpTo(RepoAnswers, Len(repos)) : Len(rs) = Len(repos)}}

\* The loop over the models or repositories: the index of the first that
\* reaches "return True", 0 when the loop ends without one.
FirstOk(rs) ==
    LET oks == {k \in 1..Len(rs) : rs[k] = "ok"}
    IN  IF oks = {} THEN 0 ELSE CHOOSE k \in oks : \A x \in oks : k <= x

\* The models or repositories the loop gets to.
Examined(rs) == IF FirstOk(rs) = 0 THEN rs ELSE SubSeq(rs, 1, FirstOk(rs))

\* shutil.copy(local_path, dest) has been reached and has not raised.
Copied(rs) ==
    \E k \in 1..Len(Examined(rs)) : Examined(rs)[k] \in {"ok", "metadata_error"}

\* What a download function returns and the files it leaves under models/,
\* file its model file and meta its metadata file (none for meta = {}):
\* False at once when huggingface_hub cannot be imported (except ImportError).
download_onnx(inst, rs, file, meta) ==
    IF ~inst THEN [result |-> FALSE, files |-> {}]
    ELSE [result |-> FirstOk(rs) # 0,
          files |-> (IF Copied(rs) THEN {file} ELSE {})
                      \cup (IF FirstOk(rs) # 0 THEN meta ELSE {})]

\* def download_doclaynet_onnx()
download_doclaynet_onnx(inst, rs) ==
    download_onnx(inst, rs, "doclayout_model.onnx", {"doclayout_model.json"})

\* def download_dit_onnx()
download_dit_onnx(inst, rs) == download_onnx(inst, rs, "dit_layout_model.onnx", {})

\* def download_layoutlmv3_onnx(): the file keeps its own name.
download_layoutlmv3_onnx(inst, rs) == download_onnx(inst, rs, "model.onnx", {})

\* main() lines 287-292: the banner, and success = False.
StartMain ==
    /\ dl_pc = "main"
    /\ printed' = Append(printed, "banner")
    /\ success' = FALSE
    /\ dl_pc' = "doclaynet"
    /\ UNCHANGED <<compareVars, thresholdVars, installed, attempted, hub, term, saved, exit_code>>

\* main() lines 295-296: if not success: success = download_doclaynet_onnx().
\* api.list_models(search="doclaynet", limit=10) and the loop over its
\* results are outside the inner try, and the outer try has only
\* "except ImportError": when the search raises, the exception leaves
\* download_doclaynet_onnx and main, and the interpreter exits with status 1.
TryDocLayNet ==
    /\ dl_pc = "doclaynet"
    /\ IF success
       THEN /\ dl_pc' = "dit"
            /\ UNCHANGED <<success, attempted, hub, saved, exit_code>>
       ELSE \E answer \in (IF installed THEN SearchAnswers ELSE {NoAnswer}) :
              /\ hub' = answer
              /\ attempted' = Append(attempted, "doclaynet")
              /\ IF answer.raised
                 THEN /\ dl_pc' = "raised"
                      /\ exit_code' = 1
                      /\ UNCHANGED <<success, saved>>
                 ELSE /\ success' = download_doclaynet_onnx(installed, answer.models).result
                      /\ saved' = saved \cup download_doclaynet_onnx(installed, answer.models).files
                      /\ dl_pc' = "dit"
                      /\ UNCHANGED exit_code
    /\ UNCHANGED <<compareVars, thresholdVars, installed, term, printed>>

\* main() lines 299-300: if not success: success = download_dit_onnx().
TryDit ==
    /\ dl_pc = "dit"
    /\ IF success
       THEN UNCHANGED <<success, attempted, hub, saved>>
       ELSE \E answer \in (IF installed THEN ListAnswers(DitRepos) ELSE {NoAnswer}) :
              /\ hub' = answer
              /\ attempted' = Append(attempted, "dit")
              /\ success' = download_dit_onnx(installed, answer.models).result
              /\ saved' = saved \cup download_dit_onnx(installed, answer.models).files
    /\ dl_pc' = "layoutlmv3"
    /\ UNCHANGED <<compareVars, thresholdVars, installed, term, printed, exit_code>>

\* main() lines 303-304: if not success: success = download_layoutlmv3_onnx().
TryLayoutLMv3 ==
    /\ dl_pc = "layoutlmv3"
    /\ IF success
       THEN UNCHANGED <<success, attempted, hub, saved>>
       ELSE \E answer \in (IF installed THEN ListAnswers(LayoutRepos) ELSE {NoAnswer}) :
              /\ hub' = answer
              /\ attempted' = Append(attempted, "layoutlmv3")
              /\ success' = download_layoutlmv3_onnx(installed, answer.models).result
              /\ saved' = saved \cup download_layoutlmv3_onnx(installed, answer.models).files
    /\ dl_pc' = "broad"
    /\ UNCHANGED <<compareVars, thresholdVars, installed, term, printed, exit_code>>

\* main() lines 307-308: if not success: success = search_and_download_any_onnx(),
\* one search term of its loop at a time.  A search that raises is caught
\* inside the loop ("Search error"), and the next term is searched; the
\* function returns True from inside the loop, False after the last term, and
\* False at once when huggingface_hub cannot be imported.
TryBroadSearch ==
    /\ dl_pc = "broad"
    /\ IF success
       THEN /\ dl_pc' = "summary"
            /\ UNCHANGED <<success, attempted, hub, saved, term>>
       ELSE /\ attempted' = IF term = 0 THEN Append(attempted, "broad") ELSE attempted
            /\ IF ~installed
               THEN /\ dl_pc' = "summary"
                    /\ UNCHANGED <<success, hub, saved, term>>
               ELSE \E answer \in SearchAnswers :
                      /\ hub' = answer
                      /\ term' = term + 1
                      /\ success' = download_onnx(TRUE, answer.models, "layout_model.onnx",
                                                  {"layout_model.json"}).result
                      /\ saved' = saved \cup download_onnx(TRUE, answer.models,
                                     "layout_model.onnx", {"layout_model.json"}).files
                      /\ dl_pc' = IF success' \/ term' = Len(SearchTerms)
                                  THEN "summary" ELSE "broad"
    /\ UNCHANGED <<compareVars, thresholdVars, installed, printed, exit_code>>

\* main() lines 310-325: the rule, one of the two summaries, and the return
\* value sys.exit() is called with.
Summary ==
    /\ dl_pc = "summary"
    /\ printed' = printed \o <<"rule", IF success THEN "SUCCESS" ELSE "No ONNX models found">>
    /\ exit_code' = IF success THEN 0 ELSE 1
    /\ dl_pc' = "exit"
    /\ UNCHANGED <<compareVars, thresholdVars, installed, success, attempted, hub, term, saved>>

NextDownload ==
    StartMain \/ TryDocLayNet \/ TryDit \/ TryLayoutLMv3 \/ TryBroadSearch \/ Summary

NextAlign == OverallSimilarity \/ TotalSim

NextRegion == AbstractSection

NextDiff == DetailedDiff \/ CompareDetailedDiff

NextSections == SectionSimilarity

Next == NextAlign \/ NextDiff \/ NextSections \/ NextRegion \/ Again

\* The two similarity computations, on every pair of short texts.
Spec == Init /\ [][NextAlign]_vars

\* The line diffs, on every pair of documents made of lines.
SpecDiff == InitDocs /\ [][NextDiff]_vars

\* The section similarities, on every pair of documents made of sections.
SpecSections == InitSections /\ [][NextSections]_vars

\* The Abstract section, on every pair of texts made of a few plain lines
\* and headings.
SpecRegion == InitRegion /\ [][NextRegion]_vars

\* Whole runs of both scripts, repeated, on the texts for whole runs.
SpecReport == InitReport /\ [][Next]_vars

\* The splitting into sections, on every text made of a few lines.
SpecSegment == InitSegment /\ [][NextSections]_vars

\* Both scripts, run on the files of the worked comparisons.
SpecScenario == InitScenario /\ [][Next]_vars

\* test_precision.py and compare_modes.py, run on the same two files.
NextThreshold == TestPrecision \/ CompareModes \/ Again

SpecThreshold == InitThreshold /\ [][NextThreshold]_vars

\* download_alternative_onnx_models.py, run once.
SpecDownload == InitDownload /\ [][NextDownload]_vars

(***************************************************************************)
(* Properties of the similarity ratio.                                     *)
(***************************************************************************)
BothEmpty == docling = <<>> /\ precision = <<>>

\* C1: for inputs that are not both empty the ratio is 2*M / (len(A)+len(B)),
\* M the sum of the lengths of the match blocks, and lies between 0 and 1.
C1_RatioFormula ==
    (pc # "start" /\ ~BothEmpty) =>
        /\ sim.den = Len(precision) + Len(docling)
        /\ sim.num = 2 * SumSizes(blocks)
        /\ 0 <= sim.num
        /\ sim.num <= sim.den

\* Two separate match blocks and a ratio strictly between 0 and 1.
C1_Witness ==
    /\ pc = "overall"
    /\ Len(blocks) >= 3
    /\ 0 < sim.num
    /\ sim.num < sim.den

\* C2: the ratio is 1.0 exactly when the two sequences are identical.
C2_OneIffIdentical ==
    pc # "start" => (IsOne(sim) <=> precision = docling)

\* Identical inputs of two or more elements, with ratio 1.0.
C2_Witness ==
    /\ pc = "overall"
    /\ precision = docling
    /\ Len(docling) >= 2
    /\ IsOne(sim)

\* C3 (as claimed): for non-empty inputs the ratio is 0.0 exactly when the
\* two sequences have no element in common.
C3_ZeroIffDisjoint ==
    (pc # "start" /\ docling # <<>> /\ precision # <<>>) =>
        (IsZero(sim) <=> Elements(precision) \cap Elements(docling) = {})

\* C4: two empty inputs give ratio 1.0; the step completes with that value.
C4_BothEmptyIsOne ==
    /\ (pc # "start" /\ BothEmpty) => sim = [num |-> 1, den |-> 1]
    /\ (pc = "total" /\ BothEmpty) => total_sim = [num |-> 1, den |-> 1]

C4_Witness == pc = "total" /\ BothEmpty /\ IsOne(sim) /\ IsOne(total_sim)

\* C5 (as claimed): the ratio of (precision, docling) equals the ratio of
\* (docling, precision).
C5_RatioSymmetric ==
    pc = "total" => RatioEq(sim, total_sim)

(***************************************************************************)
(* Properties of the line diffs.                                           *)
(***************************************************************************)
Diffed == pc \in {"detailed", "first"}

\* The lines the script that ran got from each file, and its two windows.
DoclingLines ==
    IF pc = "detailed" THEN readlines(docling) ELSE Split(docling, <<"\n">>)

PrecisionLines ==
    IF pc = "detailed" THEN readlines(precision) ELSE Split(precision, <<"\n">>)

WindowA == Slice(DoclingLines, 0, Window)

WindowB == Slice(PrecisionLines, 0, Window)

ZeroCounts ==
    [missing_breaks |-> 0, extra_breaks |-> 0, missing_headers |-> 0, wrong_joins |-> 0]

\* C6: comparing a document with itself gives only equal hunks, and nothing
\* is reported or counted.
C6_IdenticalAllEqual ==
    (Diffed /\ docling = precision) =>
        /\ \A k \in 1..Len(opcodes) : opcodes[k].tag = "equal"
        /\ diff = <<>>
        /\ issues = <<>>
        /\ counts = ZeroCounts
        /\ shown = <<>>

\* A document of several lines compared with itself.
C6_Witness ==
    /\ Diffed
    /\ docling = precision
    /\ Len(opcodes) = 1
    /\ opcodes[1].i2 >= 2

\* The hunks are ordered, none is empty, and they cover [0, la) in a and
\* [0, lb) in b without gap or overlap.
Tiles(ops, la, lb) ==
    IF ops = <<>> THEN la = 0 /\ lb = 0
    ELSE /\ ops[1].i1 = 0
         /\ ops[1].j1 = 0
         /\ \A k \in 1..(Len(ops) - 1) :
               ops[k].i2 = ops[k + 1].i1 /\ ops[k].j2 = ops[k + 1].j1
         /\ ops[Len(ops)].i2 = la
         /\ ops[Len(ops)].j2 = lb
         /\ \A k \in 1..Len(ops) :
               /\ ops[k].i1 <= ops[k].i2
               /\ ops[k].j1 <= ops[k].j2
               /\ ops[k].i1 < ops[k].i2 \/ ops[k].j1 < ops[k].j2

RECURSIVE Differing(_, _, _)
Differing(ops, a, b) ==
    IF ops = <<>> THEN <<>>
    ELSE LET c == Head(ops)
             gone == IF c.tag \in {"replace", "delete"}
                     THEN [k \in 1..(c.i2 - c.i1) |-> [t |-> Missing, raw |-> a[c.i1 + k]]]
                     ELSE <<>>
             come == IF c.tag \in {"replace", "insert"}
                     THEN [k \in 1..(c.j2 - c.j1) |-> [t |-> Extra, raw |-> b[c.j1 + k]]]
                     ELSE <<>>
         IN  gone \o come \o Differing(Tail(ops), a, b)

AllDiffering == Differing(opcodes, WindowA, WindowB)

AsIssue(x) == [t |-> x.t, content |-> strip(x.raw)]

AsIssues(xs) == [k \in 1..Len(xs) |-> AsIssue(xs[k])]

\* What compare_detailed.py has shown of differing lines.
IsDifferenceShown(e) == e.kind \in {"EXPECTED", "GOT"}

ShownDifferences ==
    LET hits == SelectSeq(shown, IsDifferenceShown)
    IN  [k \in 1..Len(hits) |->
            [t |-> IF hits[k].kind = "EXPECTED" THEN Missing ELSE Extra,
             raw |-> hits[k].text]]

\* C8 (as claimed): the output of the windowed diff is not cut afterwards:
\* every differing line of the two windows is reported.
C8_EveryDifferenceReported ==
    /\ pc = "detailed" => issues = AsIssues(AllDiffering)
    /\ pc = "first" => ShownDifferences = AllDiffering

\* C9 (as claimed): every differing line is counted in at most one of the
\* categories, so the counts sum to no more than the number of issues.
C9_OneBucketEach ==
    pc = "detailed" =>
        /\ \A k \in 1..Len(issues) :
              Cardinality({c \in {"mb", "eb", "mh", "wj"} :
                  \/ c = "mb" /\ IsMissingBreak(issues[k])
                  \/ c = "eb" /\ IsExtraBreak(issues[k])
                  \/ c = "mh" /\ IsMissingHeader(issues[k])
                  \/ c = "wj" /\ IsWrongJoin(issues[k])}) <= 1
        /\ counts.missing_breaks + counts.extra_breaks
             + counts.missing_headers + counts.wrong_joins <= Len(issues)

(***************************************************************************)
(* Properties of the section similarities.                                 *)
(***************************************************************************)
\* The sections a text has after its first piece: the title (first line) of
\* each piece that a "## " heading starts.
SectionTitles(text) ==
    LET pieces == Split(text, HeadingSep)
    IN  [k \in 1..(Len(pieces) - 1) |-> Split(pieces[k + 1], <<"\n">>)[1]]

\* The piece of the text whose title is t.
SectionOf(text, t) ==
    LET pieces == Split(text, HeadingSep)
    IN  pieces[CHOOSE k \in 2..Len(pieces) : Split(pieces[k], <<"\n">>)[1] = t]

ReportedTitles == [k \in 1..Len(sections) |-> sections[k].title]

IsUnreported(t) == \A k \in 1..Len(sections) : sections[k].title # t

\* The reference sections no similarity is printed for.
UnmatchedSections == SelectSeq(SectionTitles(docling), IsUnreported)

\* C10 (as claimed): when the reference has the sections S1, S2, S3 and the
\* candidate S1, S3, the sections are paired by title: S1 and S3 each get the
\* ratio of their own pair, and S2 alone is left unmatched.
C10_PairedByTitle ==
    (/\ pc = "sections"
     /\ startswith(docling, Preamble)
     /\ startswith(precision, Preamble)
     /\ SectionTitles(docling) = <<TitleOf(1), TitleOf(2), TitleOf(3)>>
     /\ SectionTitles(precision) = <<TitleOf(1), TitleOf(3)>>) =>
        /\ ReportedTitles = <<TitleOf(1), TitleOf(3)>>
        /\ \A k \in 1..Len(sections) :
              sections[k].sec_sim =
                  ratio(NoJunk, SectionOf(docling, sections[k].title),
                        SectionOf(precision, sections[k].title))
        /\ UnmatchedSections = <<TitleOf(2)>>

\* C11 (as claimed): no section is dropped: every "## " section of the
\* reference and of the candidate, whatever their number and length, is a
\* member of a reported pair (there is no other output a section could be
\* listed in).
C11_NoSectionDropped ==
    pc = "sections" =>
        /\ \A k \in 2..Len(docling_sections) :
              \E e \in 1..Len(sections) : sections[e].i = k - 1
        /\ \A k \in 2..Len(precision_sections) :
              \E e \in 1..Len(sections) : sections[e].i = k - 1

(***************************************************************************)
(* Properties of the splitting into sections.  A section is a piece of     *)
(* docling_sections; its lines are the lines of the text it is made of.    *)
(***************************************************************************)
DocLines == Split(docling, <<"\n">>)

LineCount(piece) == Len(Split(piece, <<"\n">>))

\* The number of the line of the text the n-th section starts at: the lines
\* of the sections before it.
RECURSIVE StartLine(_)
StartLine(n) ==
    IF n = 1 THEN 0 ELSE StartLine(n - 1) + LineCount(docling_sections[n - 1])

IsLevelHeading(line) == startswith(line, <<"#", "#", " ">>)

\* C12: a section starts at line 0 and at every later line that is a "## "
\* heading, and at no other line: a "### " heading starts none.  When the
\* first line is a heading, the section that starts at line 0 is its section.
C12_SectionsStartAtHeadings ==
    pc = "sections" =>
        /\ {StartLine(n) : n \in 1..Len(docling_sections)}
              = {0} \cup {k \in 1..(Len(DocLines) - 1) : IsLevelHeading(DocLines[k + 1])}
        /\ \A n \in 2..Len(docling_sections) : StartLine(n - 1) < StartLine(n)
        /\ startswith(docling, <<"#", "#", " ">>) =>
              startswith(docling_sections[1], <<"#", "#", " ">>)

\* A heading on the first line, a deeper heading after it, and a second
\* heading: two sections.
C12_Witness ==
    /\ pc = "sections"
    /\ startswith(docling, Heading \o <<"\n">> \o SubHeading)
    /\ Len(docling_sections) = 2
    /\ Contains(docling_sections[1], SubHeading)

\* C13: the sections are in the order of the text, each starts where the one
\* before it ends, and together they hold every line of the text once: line
\* j of section n is line StartLine(n) + j of the text (without the "## "
\* the split has consumed, for the first line of a later section).
C13_SectionsCoverDocument ==
    pc = "sections" =>
        /\ docling_sections # <<>>
        /\ StartLine(Len(docling_sections))
              + LineCount(docling_sections[Len(docling_sections)]) = Len(DocLines)
        /\ \A n \in 1..Len(docling_sections) :
              \A j \in 1..LineCount(docling_sections[n]) :
                 DocLines[StartLine(n) + j] =
                    (IF n > 1 /\ j = 1 THEN <<"#", "#", " ">> ELSE <<>>)
                       \o Split(docling_sections[n], <<"\n">>)[j]

\* A text of three sections, the first of them unnamed.
C13_Witness ==
    /\ pc = "sections"
    /\ Len(docling_sections) = 3
    /\ docling_sections[1] = Body

HasHeading(text) ==
    startswith(text, <<"#", "#", " ">>) \/ Contains(text, <<"\n", "#", "#", " ">>)

\* C14: a text none of whose lines is a "## " heading is one section, the
\* whole text.
C14_NoHeadingOneSection ==
    (pc = "sections" /\ ~HasHeading(docling)) => docling_sections = <<docling>>

\* A text of several lines with a deeper heading but no "## " heading.
C14_Witness ==
    /\ pc = "sections"
    /\ ~HasHeading(docling)
    /\ Contains(docling, SubHeading \o <<"\n">> \o Body)
    /\ docling_sections = <<docling>>

\* C15 (as claimed): in a text with a heading, a first section that is not
\* the section of a heading exists only for content before the first
\* heading: no empty unnamed section is produced.
C15_NoEmptyInitialSection ==
    (pc = "sections" /\ HasHeading(docling)) =>
        (~startswith(docling_sections[1], <<"#", "#", " ">>) => docling_sections[1] # <<>>)

(***************************************************************************)
(* Properties of the Abstract section (the region between two markers).    *)
(***************************************************************************)
InNoLine(text, marker) ==
    \A k \in 1..Len(readlines(text)) : ~Contains(readlines(text)[k], marker)

\* C16 (as claimed): when the start marker is in no line of the reference,
\* its region starts at line 0 and a comparison is still produced.
C16_MissingStartFromZero ==
    (pc = "abstract" /\ InNoLine(docling, Heading)) =>
        /\ abs_start_d = 0
        /\ abs_sim # None

\* The first line of the text that contains the marker (0-based).
FirstLineWith(text, marker) ==
    CHOOSE i \in 0..(Len(readlines(text)) - 1) :
        /\ Contains(readlines(text)[i + 1], marker)
        /\ \A x \in 0..(i - 1) : ~Contains(readlines(text)[x + 1], marker)

\* The start marker is found, and the end marker is in no line after it.
EndMissingAfterStart(text) ==
    /\ ~InNoLine(text, Heading)
    /\ \A k \in (FirstLineWith(text, Heading) + 1)..(Len(readlines(text)) - 1) :
          ~Contains(readlines(text)[k + 1], IntroHeading)

\* C17 (as claimed): when the start marker is found at line s of the
\* reference and the end marker is in no line after s, the region is the
\* lines from s to the end of the text.
C17_MissingEndThroughEnd ==
    (pc = "abstract" /\ EndMissingAfterStart(docling)) =>
        abstract_d = Join(SliceFrom(readlines(docling), FirstLineWith(docling, Heading),
                                    Len(readlines(docling))))

C19_InputsUnchanged ==
    [][docling' = docling /\ precision' = precision]_vars

\* A diff has been taken of the first 100 lines of texts that have more, and
\* the texts still have their lines beyond the window.
C19_Witness ==
    /\ pc = "detailed"
    /\ Len(readlines(docling)) > Window
    /\ Len(readlines(precision)) > Window
    /\ opcodes # <<>>
    /\ opcodes[Len(opcodes)].i2 = Window

BlockSound(a, b, m) ==
    /\ 0 <= m.a /\ m.a + m.size <= Len(a)
    /\ 0 <= m.b /\ m.b + m.size <= Len(b)
    /\ \A k \in 0..(m.size - 1) : a[m.a + k + 1] = b[m.b + k + 1]

\* C21: every match block pairs equal elements, and each block starts at or
\* after the end of the block before it in both sequences, so the starts
\* increase strictly from one block to the next.
C21_BlocksSoundOrdered ==
    pc # "start" =>
        /\ \A k \in 1..Len(blocks) : BlockSound(precision, docling, blocks[k])
        /\ \A k \in 1..(Len(blocks) - 1) :
              /\ blocks[k].a + blocks[k].size <= blocks[k + 1].a
              /\ blocks[k].b + blocks[k].size <= blocks[k + 1].b
              /\ blocks[k].a < blocks[k + 1].a
              /\ blocks[k].b < blocks[k + 1].b

\* Two match blocks before the closing one, one of them of two elements or
\* more, with unmatched elements between them.
C21_Witness ==
    /\ pc = "overall"
    /\ Len(blocks) >= 3
    /\ \E k \in 1..Len(blocks) : blocks[k].size >= 2
    /\ blocks[1].a + blocks[1].size < blocks[2].a

(***************************************************************************)
(* The worked comparisons.                                                 *)
(***************************************************************************)
IsScenarioA == docling = ReferenceA /\ precision = CandidateA

\* The differences counted over all the buckets of counts.
BucketTotal ==
    counts.missing_breaks + counts.extra_breaks + counts.missing_headers
      + counts.wrong_joins

\* C22 (as claimed): for the reference "# Title", "", "Body text.", "" and
\* the candidate with the one more line "Extra line", the overall ratio is
\* 8/9, the hunks are equal(0-4, 0-4) then insert(4-4, 4-5), and the buckets
\* count exactly one difference.
C22_ScenarioA ==
    IsScenarioA =>
        /\ pc \in {"overall", "total"} => RatioEq(sim, [num |-> 8, den |-> 9])
        /\ pc = "total" => RatioEq(total_sim, [num |-> 8, den |-> 9])
        /\ pc = "detailed" =>
              /\ opcodes = <<Opcode("equal", 0, 4, 0, 4), Opcode("insert", 4, 4, 4, 5)>>
              /\ Len(issues) = 1
              /\ BucketTotal = 1

IsScenarioB == docling = ReferenceB /\ precision = CandidateB

\* C23 (as claimed): when the candidate's '## Abstract' line is plain text,
\* the candidate has one section less, its first section holding the title
\* and the Abstract text; every step completes; no similarity is reported
\* for the reference's Abstract section, which is left unmatched; and the
\* diff counts at least one missing heading.
C23_ScenarioB ==
    IsScenarioB =>
        /\ pc = "sections" =>
              /\ Len(precision_sections) = Len(docling_sections) - 1
              /\ precision_sections[1]
                    = TitleLine \o <<"\n">> \o DemotedHeading \o <<"\n">> \o BodyText
              /\ IsUnreported(DemotedHeading)
        /\ pc = "abstract" => abs_sim = None
        /\ pc = "detailed" => counts.missing_headers >= 1
(***************************************************************************)
(* Properties of the search for the longest match.                         *)
(***************************************************************************)
\* The sequences a and b have the same n elements from a[i] and from b[j] on.
CommonRunAt(a, b, i, j, n) ==
    /\ i + n <= Len(a)
    /\ j + n <= Len(b)
    /\ \A k \in 1..n : a[i + k] = b[j + k]

\* The size of the largest match block.
LongestBlock ==
    IF blocks = <<>> THEN 0
    ELSE LET sizes == {blocks[k].size : k \in 1..Len(blocks)}
         IN  CHOOSE s \in sizes : \A x \in sizes : x <= s

\* C24 (as claimed): with no junk predicate, the largest match block is as
\* long as the longest run of elements the two sequences have in common,
\* which is to say that no common run is longer than it.
C24_LongestBlockIsLongestRun ==
    pc # "start" =>
        \A i \in 0..(Len(precision) - LongestBlock - 1) :
            \A j \in 0..(Len(docling) - LongestBlock - 1) :
                ~CommonRunAt(precision, docling, i, j, LongestBlock + 1)

\* The match found in the whole of both sequences, the first get_matching_blocks
\* looks for.
FirstMatch ==
    find_longest_match(NoJunk, precision, docling, chain_b(NoJunk, docling),
                       0, Len(precision), 0, Len(docling))

\* No common run of the two sequences is longer than n.
NoLongerRun(n) ==
    \A i \in 0..(Len(precision) - n - 1) :
        \A j \in 0..(Len(docling) - n - 1) :
            ~CommonRunAt(precision, docling, i, j, n + 1)

\* C25 (as claimed): when the match found is a longest common run, no
\* common run of the same length starts earlier in the first sequence, or
\* at the same place in the first sequence and earlier in the second.
C25_EarliestLongestRun ==
    (pc # "start" /\ FirstMatch.size > 0 /\ NoLongerRun(FirstMatch.size)) =>
        \A i \in 0..FirstMatch.a :
            \A j \in 0..(Len(docling) - FirstMatch.size) :
                (i < FirstMatch.a \/ j < FirstMatch.b) =>
                    ~CommonRunAt(precision, docling, i, j, FirstMatch.size)
(***************************************************************************)
(* Properties of download_alternative_onnx_models.py.                      *)
(***************************************************************************)
\* The order the sources are to be tried in.
Sources == <<"doclaynet", "dit", "layoutlmv3", "broad">>

\* The script has ended: main() has returned, or an exception has left it.
Ended == dl_pc \in {"exit", "raised"}

Summaries == {"SUCCESS", "No ONNX models found"}

\* C27 (as claimed): the sources are tried in the order DocLayNet, DiT,
\* LayoutLMv3, broad search; once one has succeeded no other is tried, so
\* the last one tried is the one that succeeded; the script ends with exit
\* code 0 if a source succeeded and 1 if none did; and it always ends with
\* exactly one of the two summaries printed.
C27_MainOrderAndExit ==
    /\ Len(attempted) <= Len(Sources)
    /\ attempted = SubSeq(Sources, 1, Len(attempted))
    /\ success => FirstOk(hub.models) # 0
    /\ Ended => (exit_code = 0 <=> success) /\ (exit_code = 1 <=> ~success)
    /\ Ended =>
          /\ Cardinality({k \in 1..Len(printed) : printed[k] \in Summaries}) = 1
          /\ printed[Len(printed)] = (IF success THEN "SUCCESS" ELSE "No ONNX models found")
(***************************************************************************)
(* Properties of the acceptance threshold.                                 *)
(***************************************************************************)
\* The similarity percentage of the two files, 100 * 2 * M / T for M matched
\* characters out of T (100 when both files are empty), is at least 95.
AtLeastTarget ==
    IF BothEmpty THEN TRUE
    ELSE 200 * SumSizes(get_matching_blocks(NoJunk, precision, docling))
            >= 95 * (Len(precision) + Len(docling))

\* C28: test_precision.py and compare_modes.py print a passing status
\* exactly when the similarity percentage of the precision-mode file with
\* the reference is at least 95, test_precision.py prints its 'Still need'
\* line exactly when its status is not the passing one, and on the same two
\* files the two scripts agree.
C28_Threshold ==
    /\ status # "" =>
          /\ status = "PASS" <=> AtLeastTarget
          /\ still_need # None <=> status # "PASS"
          /\ still_need # None => still_need.num > 0
    /\ modes_status # "" => (modes_status = "PASSED" <=> AtLeastTarget)
    /\ (status # "" /\ modes_status # "") =>
          (status = "PASS" <=> modes_status = "PASSED")

\* Both scripts have run on two different files whose similarity is exactly
\* 95%, and both have printed their passing status.
C28_Witness ==
    /\ status = "PASS"
    /\ modes_status = "PASSED"
    /\ still_need = None
    /\ precision # docling
    /\ 100 * sim.num = 95 * sim.den

====
